---------------------------- MODULE Spec2Model ----------------------------
(***************************************************************************)
(* Timecode engine and marker ledger of frame-mark, modelled from          *)
(* src/app/(tabs)/index.tsx.                                               *)
(*                                                                         *)
(* Strings are sequences of one-character strings, so that padding,        *)
(* splitting and parsing are computed the way the code computes them.      *)
(* Numbers that the code computes in IEEE-754 double arithmetic            *)
(* (the tick formula and the fps conversion) are computed with the double  *)
(* rounding of each intermediate result, see FloatShort.                   *)
(***************************************************************************)
EXTENDS Integers, Sequences, FiniteSets, TLC

VARIABLES
    fps,            \* useState(24)
    startTC,        \* useState("01:00:00:00")
    frames,         \* useState(timecodeToFrames("01:00:00:00", 24))
    playing,        \* useState(false)
    markers,        \* useState<Marker[]>([])
    editing,        \* useState<Marker | null>(null): <<>> is null, <<m>> a marker
    comment,        \* useState(""): the comment draft of the comment modal
    sortMode,       \* useState("timecode")
    tcModalOpen,    \* useState(false)
    tcH, tcM, tcS, tcF,  \* the start timecode picker's wheels
    summary,        \* useState("")
    loadingSummary, \* useState(false)
    raf,            \* useRef(null): TRUE when raf.current holds the id of a callback
    queued,         \* the animation frame callbacks requested and neither run nor cancelled
    startMs,        \* useRef(0)
    baseFrames,     \* useRef(0)
    nextMarkerId,   \* useRef(1)
    now,            \* Date.now(), in ms since the component was constructed
    issued,         \* history: every marker id handed out so far, in order
    call,           \* the pure function applied last, its arguments and its result
    platform,       \* Platform.OS
    geminiKey,      \* whether process.env.EXPO_PUBLIC_GEMINI_KEY is set
    alert,          \* the notice of the last Alert.alert, NoAlert before any
    menuOpen,       \* whether the export menu is shown
    namePrompt,     \* the export waiting in askFileName: <<>> or <<[ext, defaultName, content]>>
    written,        \* the file written and shared last: <<>> or <<[name, content]>>
    clipboard,      \* the text set on the clipboard last: <<>> or <<text>>
    requests        \* the bodies of the fetch calls in flight

clockVars  == <<fps, frames, playing, raf, queued, startMs, baseFrames>>
pickerVars == <<startTC, tcModalOpen, tcH, tcM, tcS, tcF>>
ledgerVars == <<markers, editing, comment, sortMode, nextMarkerId, issued>>
summaryVars == <<summary, loadingSummary>>
envVars == <<platform, geminiKey>>
outVars == <<alert, menuOpen, namePrompt, written, clipboard>>
ioVars == <<envVars, outVars, requests>>
vars == <<clockVars, pickerVars, ledgerVars, summaryVars, now, call, ioVars>>

----------------------------------------------------------------------------
(* Bounds of the model *)

\* The wall clock stops advancing at MaxNow ms.
MaxNow == 1160
\* adjust is taken only while the position stays within MaxSeek seconds of
\* the start timecode's position.
MaxSeek == 1
\* At most MaxIds markers are captured over the ledger's lifetime.
MaxIds == 2
\* The ledgers given to the sort hold at most MaxSortLen markers.
MaxSortLen == 3
\* The codec is applied to every frame count up to MaxCodecFrame (and to
\* the field-boundary frame counts of CodecFrames).
MaxCodecFrame == 130
\* Timecode strings given to the decoder have at most MaxFields fields.
MaxFields == 5
\* The ledgers whose text is built hold at most MaxTextLen markers.
MaxTextLen == 2
\* The FPS selector is pressed at every frame count up to MaxConvertFrame.
MaxConvertFrame == 100
\* The comments given to the exports have at most MaxEscLen characters.
MaxEscLen == 3


----------------------------------------------------------------------------
(* Numbers and strings *)

Max(a, b) == IF a >= b THEN a ELSE b
Min(a, b) == IF a <= b THEN a ELSE b

RECURSIVE Pow2(_)
Pow2(n) == IF n = 0 THEN 1 ELSE 2 * Pow2(n - 1)

Digits == <<"0", "1", "2", "3", "4", "5", "6", "7", "8", "9">>
IsDigit(c) == \E i \in 1..10 : Digits[i] = c
DigitValue(c) == (CHOOSE i \in 1..10 : Digits[i] = c) - 1

\* Number.prototype.toString of a non-negative integer
RECURSIVE toString(_)
toString(n) ==
    IF n < 10 THEN <<Digits[n + 1]>>
    ELSE toString(n \div 10) \o <<Digits[(n % 10) + 1]>>

\* String.prototype.padStart(width, "0")
RECURSIVE padStart(_, _)
padStart(s, width) ==
    IF Len(s) >= width THEN s ELSE padStart(<<"0">> \o s, width)

\* String.prototype.split(sep) for a one-character separator
RECURSIVE split(_, _)
split(s, sep) ==
    IF \A i \in 1..Len(s) : s[i] # sep THEN <<s>>
    ELSE LET i == CHOOSE j \in 1..Len(s) :
                    s[j] = sep /\ \A k \in 1..(j - 1) : s[k] # sep
         IN  <<SubSeq(s, 1, i - 1)>> \o split(SubSeq(s, i + 1, Len(s)), sep)

\* Array.prototype.join(sep)
RECURSIVE join(_, _)
join(parts, sep) ==
    IF Len(parts) = 0 THEN <<>>
    ELSE IF Len(parts) = 1 THEN parts[1]
    ELSE parts[1] \o sep \o join(Tail(parts), sep)

\* The white space that trim, trimEnd and Number strip
WhiteSpace == {" ", "\t", "\n"}

RECURSIVE trimStart(_)
trimStart(s) ==
    IF Len(s) > 0 /\ s[1] \in WhiteSpace THEN trimStart(Tail(s)) ELSE s

RECURSIVE trimEnd(_)
trimEnd(s) ==
    IF Len(s) > 0 /\ s[Len(s)] \in WhiteSpace
    THEN trimEnd(SubSeq(s, 1, Len(s) - 1)) ELSE s

trim(s) == trimEnd(trimStart(s))

RECURSIVE DecimalValue(_)
DecimalValue(s) ==
    IF Len(s) = 0 THEN 0
    ELSE 10 * DecimalValue(SubSeq(s, 1, Len(s) - 1)) + DigitValue(s[Len(s)])

\* Number(string), for strings of digits, blanks and letters: white space is
\* trimmed, the empty string converts to 0, a digit string to its value and
\* anything else to NaN.
Number(s) ==
    LET t == trim(s)
    IN  IF \A i \in 1..Len(t) : IsDigit(t[i])
        THEN [nan |-> FALSE, val |-> DecimalValue(t)]
        ELSE [nan |-> TRUE, val |-> 0]

isNaN(x) == x.nan


----------------------------------------------------------------------------
(* IEEE-754 double arithmetic of (e / d) * c                                *)

\* The largest k with 2^k * lo <= hi (hi >= lo > 0).
RECURSIVE Log2Floor(_, _)
Log2Floor(hi, lo) == IF hi < 2 * lo THEN 0 ELSE 1 + Log2Floor(hi, 2 * lo)

\* The smallest k >= 1 with hi <= 2^k * lo (hi > lo > 0).
RECURSIVE Log2Ceil(_, _)
Log2Ceil(hi, lo) == IF hi <= 2 * lo THEN 1 ELSE 1 + Log2Ceil(hi, 2 * lo)

\* 2^n modulo m, by squaring
RECURSIVE PowMod2(_, _)
PowMod2(n, m) ==
    IF n = 0 THEN 1 % m
    ELSE LET h == PowMod2(n \div 2, m)
         IN  IF n % 2 = 0 THEN (h * h) % m ELSE (2 * h * h) % m

\* Whether the double (e / d) * c, each operation rounded to nearest-even
\* with a 53-bit significand, is less than the rational e*c/d, for integers
\* e >= 0, d > 0, c > 0 whose exact e*c/d is a multiple of 1/2 (elsewhere
\* the rounding error, below 2^-50 relative, cannot carry the result across
\* an integer or a half).
\*   e/d is rounded to m * 2^-s with 2^52 <= m <= 2^53: with
\*   R = e*2^s mod 2d, the remainder r = R mod d is dropped (r' = r) or
\*   rounded up (r' = r - d), ties to the even m.  The product m*c is
\*   e*c*2^s/d - eps with eps = r'*c/d, and it is rounded with the unit
\*   2^g of its binade: the result is below e*c/d iff eps > 2^g / 2.
FloatShort(e, d, c) ==
    IF e = 0 THEN FALSE
    ELSE
    LET up  == IF e >= d THEN Log2Floor(e, d) ELSE 0
        dn  == IF e >= d THEN 0 ELSE Log2Ceil(d, e)
        \* e/d lies in [2^(up-dn), 2^(up-dn+1)), so s = 52 - (up - dn)
        s   == 52 - up + dn
        R   == ((e % (2 * d)) * PowMod2(s, 2 * d)) % (2 * d)
        r   == R % d
        odd == R >= d
        rr  == IF 2 * r < d THEN r
               ELSE IF 2 * r > d THEN r - d
               ELSE IF odd THEN r - d ELSE r
        eps == (rr * c) \div d
        \* the smallest G with e*c/d <= 2^(up-dn) * 2^G
        G   == CHOOSE n \in 0..31 :
                 /\ e * c * Pow2(dn) <= d * Pow2(up) * Pow2(n)
                 /\ \A j \in 0..(n - 1) : e * c * Pow2(dn) > d * Pow2(up) * Pow2(j)
    IN  rr > 0 /\ 4 * eps > Pow2(G)

\* Math.floor((e / d) * c)
FloorMulDiv(e, d, c) ==
    LET q == (e * c) \div d
    IN  IF (e * c) % d = 0 /\ FloatShort(e, d, c) THEN q - 1 ELSE q

\* Math.round((e / d) * c): JavaScript rounds halves up
RoundMulDiv(e, d, c) ==
    LET q == (2 * e * c + d) \div (2 * d)
    IN  IF (2 * e * c) % d = 0 /\ ((2 * e * c) \div d) % 2 = 1 /\ FloatShort(e, d, c)
        THEN q - 1 ELSE q

----------------------------------------------------------------------------
(* Timecode helpers *)

FpsChoices == {24, 25, 30}

\* framesToTimecode with the seconds field not reduced modulo 60
framesToTimecodeTotalSeconds(frm, fp) ==
    LET f  == Max(0, frm)
        ff == f % fp
        totalSeconds == f \div fp
        totalMinutes == totalSeconds \div 60
        mm == totalMinutes % 60
        hh == totalMinutes \div 60
    IN  padStart(toString(hh), 2) \o <<":">> \o padStart(toString(mm), 2)
          \o <<":">> \o padStart(toString(totalSeconds), 2) \o <<":">>
          \o padStart(toString(ff), 2)

framesToTimecode(frm, fp) ==
    LET f  == Max(0, frm)
        ff == f % fp
        totalSeconds == f \div fp
        ss == totalSeconds % 60
        totalMinutes == totalSeconds \div 60
        mm == totalMinutes % 60
        hh == totalMinutes \div 60
    IN  padStart(toString(hh), 2) \o <<":">> \o padStart(toString(mm), 2)
          \o <<":">> \o padStart(toString(ss), 2) \o <<":">>
          \o padStart(toString(ff), 2)

\* timecodeToFrames without the frames field added
timecodeToFramesWholeSeconds(tc, fp) ==
    LET parts == split(tc, ":")
        p == [i \in 1..Len(parts) |-> Number(parts[i])]
    IN  IF Len(p) # 4 \/ \E i \in 1..Len(p) : isNaN(p[i]) THEN 0
        ELSE (p[1].val * 3600 + p[2].val * 60 + p[3].val) * fp

timecodeToFrames(tc, fp) ==
    LET parts == split(tc, ":")
        p == [i \in 1..Len(parts) |-> Number(parts[i])]
    IN  IF Len(p) # 4 \/ \E i \in 1..Len(p) : isNaN(p[i]) THEN 0
        ELSE (p[1].val * 3600 + p[2].val * 60 + p[3].val) * fp + p[4].val

\* frames / fps: the double nearest to num/den, kept as the fraction
framesToSeconds(frm, fp) == [num |-> frm, den |-> fp]

\* Math.round(seconds * fps)
secondsToFrames(seconds, fp) == RoundMulDiv(seconds.num, seconds.den, fp)

----------------------------------------------------------------------------
(* Initial state: the component after construction *)

NoAlert == [title |-> "", message |-> ""]
Platforms == {"ios", "android", "web"}

\* Nothing shown, written, copied or requested yet.  The clock and the
\* ledger read neither the platform nor the key.
InitIO ==
    /\ platform = "ios"
    /\ geminiKey = TRUE
    /\ alert = NoAlert
    /\ menuOpen = FALSE
    /\ namePrompt = <<>>
    /\ written = <<>>
    /\ clipboard = <<>>
    /\ requests = <<>>

StartTCDefault == <<"0", "1", ":", "0", "0", ":", "0", "0", ":", "0", "0">>
NoCall == [fn |-> "none", done |-> FALSE, fps |-> 0, frames |-> 0, tc |-> <<>>,
           outFrames |-> 0]

Init ==
    /\ fps = 24
    /\ startTC = StartTCDefault
    /\ frames = timecodeToFrames(StartTCDefault, 24)
    /\ playing = FALSE
    /\ markers = <<>>
    /\ editing = <<>>
    /\ comment = <<>>
    /\ sortMode = "timecode"
    /\ tcModalOpen = FALSE
    /\ tcH = 1 /\ tcM = 0 /\ tcS = 0 /\ tcF = 0
    /\ summary = <<>>
    /\ loadingSummary = FALSE
    /\ raf = FALSE
    /\ queued = 0
    /\ startMs = 0
    /\ baseFrames = 0
    /\ nextMarkerId = 1
    /\ now = 0
    /\ issued = <<>>
    /\ call = NoCall
    /\ InitIO

----------------------------------------------------------------------------
(* The clock *)

\* The wall clock advances by dt ms.
Elapse(dt) ==
    /\ now + dt <= MaxNow
    /\ now' = now + dt
    /\ UNCHANGED <<clockVars, pickerVars, ledgerVars, summaryVars, call, ioVars>>

\* The callbacks left after if (raf.current) cancelAnimationFrame(raf.current):
\* raf.current, when set, is the id of a callback that has not run yet.
cancelled == IF raf THEN queued - 1 ELSE queued

\* The timer effect, run after a render in which playing or fps changed:
\* pl and fr are the rendered playing and frames.  The cleanup of the run
\* before, which was one more render with playing if playing is true now,
\* cancels the scheduled callback.  Not playing, the effect cancels it;
\* playing, it takes the baseline and requests loop.
TimerEffect(pl, fr) ==
    IF pl
    THEN /\ startMs' = now /\ baseFrames' = fr /\ raf' = TRUE
         /\ queued' = (IF playing THEN cancelled ELSE queued) + 1
    ELSE raf' = FALSE /\ queued' = cancelled /\ UNCHANGED <<startMs, baseFrames>>

\* loop adding to frames the whole frames of the time since the wall clock
\* was last read, instead of recomputing from the baseline
loopFramesAccumulating(t) == frames + FloorMulDiv(t - now, 1000, fps)

\* What loop sets frames to when it runs at time t.
loopFrames(t) == baseFrames + FloorMulDiv(t - startMs, 1000, fps)

\* loop: a requested animation frame callback runs, sets frames and
\* requests itself again.  Its fps is that of the render whose effect
\* requested it, which is the current one: the effect runs again whenever
\* fps changes.
loop ==
    /\ queued > 0
    /\ frames' = loopFrames(now)
    /\ raf' = TRUE
    /\ UNCHANGED <<fps, playing, queued, startMs, baseFrames>>
    /\ UNCHANGED <<pickerVars, ledgerVars, summaryVars, now, call, ioVars>>

\* play that requests a callback itself, also when one is already requested
playRequestingAgain ==
    /\ playing' = TRUE
    /\ baseFrames' = frames /\ startMs' = now
    /\ raf' = TRUE
    /\ queued' = queued + 1
    /\ UNCHANGED <<fps, frames>>
    /\ UNCHANGED <<pickerVars, ledgerVars, summaryVars, now, call, ioVars>>

\* play: takes the baseline; starting from Stopped, the timer effect then
\* runs (and takes the same baseline), from Playing no render follows.
play ==
    /\ playing' = TRUE
    /\ IF playing
       THEN baseFrames' = frames /\ startMs' = now /\ UNCHANGED <<raf, queued>>
       ELSE TimerEffect(TRUE, frames)
    /\ UNCHANGED <<fps, frames>>
    /\ UNCHANGED <<pickerVars, ledgerVars, summaryVars, now, call, ioVars>>

\* stop that leaves the scheduled callback in place
stopWithoutCancel ==
    /\ playing' = FALSE
    /\ UNCHANGED <<fps, frames, raf, queued, startMs, baseFrames>>
    /\ UNCHANGED <<pickerVars, ledgerVars, summaryVars, now, call, ioVars>>

\* stop: setPlaying(false) and cancelAnimationFrame
stop ==
    /\ playing' = FALSE
    /\ raf' = FALSE
    /\ queued' = cancelled
    /\ UNCHANGED <<fps, frames, startMs, baseFrames>>
    /\ UNCHANGED <<pickerVars, ledgerVars, summaryVars, now, call, ioVars>>

\* reset that does not call stop()
resetWithoutStop ==
    /\ frames' = timecodeToFrames(startTC, fps)
    /\ markers' = <<>>
    /\ summary' = <<>>
    /\ UNCHANGED <<fps, playing, raf, queued, startMs, baseFrames>>
    /\ UNCHANGED <<editing, comment, sortMode, nextMarkerId, issued>>
    /\ UNCHANGED <<pickerVars, loadingSummary, now, call, ioVars>>

\* reset that also restarts the id counter
resetRestartingIds ==
    /\ playing' = FALSE
    /\ raf' = FALSE
    /\ queued' = cancelled
    /\ frames' = timecodeToFrames(startTC, fps)
    /\ markers' = <<>>
    /\ summary' = <<>>
    /\ nextMarkerId' = 1
    /\ UNCHANGED <<fps, startMs, baseFrames>>
    /\ UNCHANGED <<editing, comment, sortMode, issued>>
    /\ UNCHANGED <<pickerVars, loadingSummary, now, call, ioVars>>

\* reset: stop(), back to the start timecode, markers and summary cleared
reset ==
    /\ playing' = FALSE
    /\ raf' = FALSE
    /\ queued' = cancelled
    /\ frames' = timecodeToFrames(startTC, fps)
    /\ markers' = <<>>
    /\ summary' = <<>>
    /\ UNCHANGED <<fps, startMs, baseFrames>>
    /\ UNCHANGED <<editing, comment, sortMode, nextMarkerId, issued>>
    /\ UNCHANGED <<pickerVars, loadingSummary, now, call, ioVars>>

\* adjust without the clamp at 0
adjustedUnclamped(deltaSeconds) == frames + deltaSeconds * fps

\* adjust moving by deltaSeconds frames instead of seconds
adjustedByFrames(deltaSeconds) == Max(0, frames + deltaSeconds)

\* The position adjust would move to.
adjusted(deltaSeconds) == Max(0, frames + deltaSeconds * fps)

AdjustChoices == {-1, 1, -5, 5}

\* adjust: the -1s, +1s, -5s, +5s buttons.  It touches neither baseline ref
\* and changes neither dependency of the timer effect.
adjust(deltaSeconds) ==
    /\ frames' = adjusted(deltaSeconds)
    /\ UNCHANGED <<fps, playing, raf, queued, startMs, baseFrames>>
    /\ LET start == timecodeToFrames(startTC, fps)
       IN  /\ adjusted(deltaSeconds) <= start + MaxSeek * fps
           /\ adjusted(deltaSeconds) >= start - MaxSeek * fps
    /\ UNCHANGED <<pickerVars, ledgerVars, summaryVars, now, call, ioVars>>

\* changeFps that also converts the stored markers to the new frame rate
changeFpsRenormalizing(newFps) ==
    /\ ~playing
    /\ frames' = secondsToFrames(framesToSeconds(frames, fps), newFps)
    /\ fps' = newFps
    /\ markers' = [i \in 1..Len(markers) |->
                     [markers[i] EXCEPT !.frames =
                        secondsToFrames(framesToSeconds(markers[i].frames, fps), newFps)]]
    /\ IF newFps # fps
       THEN TimerEffect(playing, frames')
       ELSE UNCHANGED <<raf, queued, startMs, baseFrames>>
    /\ UNCHANGED playing
    /\ UNCHANGED <<editing, comment, sortMode, nextMarkerId, issued>>
    /\ UNCHANGED <<pickerVars, summaryVars, now, call, ioVars>>

\* changeFps with the FPS selector left enabled while playing
changeFpsWhilePlaying(newFps) ==
    /\ frames' = secondsToFrames(framesToSeconds(frames, fps), newFps)
    /\ fps' = newFps
    /\ IF newFps # fps
       THEN TimerEffect(playing, frames')
       ELSE UNCHANGED <<raf, queued, startMs, baseFrames>>
    /\ UNCHANGED playing
    /\ UNCHANGED <<pickerVars, ledgerVars, summaryVars, now, call, ioVars>>

\* changeFps keeping the raw frame count
changeFpsKeepingFrames(newFps) ==
    /\ ~playing
    /\ frames' = frames
    /\ fps' = newFps
    /\ IF newFps # fps
       THEN TimerEffect(playing, frames')
       ELSE UNCHANGED <<raf, queued, startMs, baseFrames>>
    /\ UNCHANGED playing
    /\ UNCHANGED <<pickerVars, ledgerVars, summaryVars, now, call, ioVars>>

\* changeFps: the FPS selector, disabled while playing.  The timer effect
\* runs when fps changed.
changeFps(newFps) ==
    /\ ~playing
    /\ frames' = secondsToFrames(framesToSeconds(frames, fps), newFps)
    /\ fps' = newFps
    /\ IF newFps # fps
       THEN TimerEffect(playing, frames')
       ELSE UNCHANGED <<raf, queued, startMs, baseFrames>>
    /\ UNCHANGED playing
    /\ UNCHANGED <<pickerVars, ledgerVars, summaryVars, now, call, ioVars>>

----------------------------------------------------------------------------
(* The start timecode picker *)

pad2(n) == padStart(toString(n), 2)

openTcModal ==
    /\ LET parts == split(startTC, ":")
           p == [i \in 1..Len(parts) |-> Number(parts[i])]
       IN  IF Len(p) = 4 /\ \A i \in 1..Len(p) : ~isNaN(p[i])
           THEN tcH' = p[1].val /\ tcM' = p[2].val /\ tcS' = p[3].val
                /\ tcF' = p[4].val
           ELSE UNCHANGED <<tcH, tcM, tcS, tcF>>
    /\ tcModalOpen' = TRUE
    /\ UNCHANGED <<startTC, clockVars, ledgerVars, summaryVars, now, call, ioVars>>

\* The wheels of the open picker: HH has 24 items, MM and SS 60, FF
\* max(1, fps) items.
setTcH(v) ==
    /\ tcModalOpen /\ v \in 0..23
    /\ tcH' = v
    /\ UNCHANGED <<startTC, tcModalOpen, tcM, tcS, tcF>>
    /\ UNCHANGED <<clockVars, ledgerVars, summaryVars, now, call, ioVars>>

setTcM(v) ==
    /\ tcModalOpen /\ v \in 0..59
    /\ tcM' = v
    /\ UNCHANGED <<startTC, tcModalOpen, tcH, tcS, tcF>>
    /\ UNCHANGED <<clockVars, ledgerVars, summaryVars, now, call, ioVars>>

setTcS(v) ==
    /\ tcModalOpen /\ v \in 0..59
    /\ tcS' = v
    /\ UNCHANGED <<startTC, tcModalOpen, tcH, tcM, tcF>>
    /\ UNCHANGED <<clockVars, ledgerVars, summaryVars, now, call, ioVars>>

setTcF(v) ==
    /\ tcModalOpen /\ v \in 0..(Max(1, fps) - 1)
    /\ tcF' = v
    /\ UNCHANGED <<startTC, tcModalOpen, tcH, tcM, tcS>>
    /\ UNCHANGED <<clockVars, ledgerVars, summaryVars, now, call, ioVars>>

confirmTcModal ==
    /\ tcModalOpen
    /\ LET tc == pad2(tcH) \o <<":">> \o pad2(tcM) \o <<":">> \o pad2(tcS)
                   \o <<":">> \o pad2(tcF)
       IN  /\ startTC' = tc
           /\ frames' = timecodeToFrames(tc, fps)
    /\ tcModalOpen' = FALSE
    /\ UNCHANGED <<tcH, tcM, tcS, tcF>>
    /\ UNCHANGED <<fps, playing, raf, queued, startMs, baseFrames>>
    /\ UNCHANGED <<ledgerVars, summaryVars, now, call, ioVars>>

cancelTcModal ==
    /\ tcModalOpen
    /\ tcModalOpen' = FALSE
    /\ UNCHANGED <<startTC, tcH, tcM, tcS, tcF>>
    /\ UNCHANGED <<clockVars, ledgerVars, summaryVars, now, call, ioVars>>

----------------------------------------------------------------------------
(* The marker ledger *)

CommentChoices == {<<"a">>}

\* capture that puts the new marker first
capturePrepending ==
    /\ nextMarkerId <= MaxIds
    /\ LET m == [id |-> nextMarkerId, frames |-> frames, comment |-> <<>>]
       IN  /\ markers' = <<m>> \o markers
           /\ editing' = <<m>>
           /\ issued' = Append(issued, m.id)
    /\ nextMarkerId' = nextMarkerId + 1
    /\ comment' = <<>>
    /\ UNCHANGED <<sortMode, clockVars, pickerVars, summaryVars, now, call, ioVars>>

\* capture that reads the id counter without incrementing it
captureReusingId ==
    /\ nextMarkerId <= MaxIds
    /\ LET m == [id |-> nextMarkerId, frames |-> frames, comment |-> <<>>]
       IN  /\ markers' = Append(markers, m)
           /\ editing' = <<m>>
           /\ issued' = Append(issued, m.id)
    /\ comment' = <<>>
    /\ UNCHANGED <<nextMarkerId, sortMode>>
    /\ UNCHANGED <<clockVars, pickerVars, summaryVars, now, call, ioVars>>

capture ==
    /\ nextMarkerId <= MaxIds
    /\ LET m == [id |-> nextMarkerId, frames |-> frames, comment |-> <<>>]
       IN  /\ markers' = Append(markers, m)
           /\ editing' = <<m>>
           /\ issued' = Append(issued, m.id)
    /\ nextMarkerId' = nextMarkerId + 1
    /\ comment' = <<>>
    /\ UNCHANGED <<sortMode, clockVars, pickerVars, summaryVars, now, call, ioVars>>

\* The text input of the comment modal, shown while a marker is edited
setComment(text) ==
    /\ editing # <<>>
    /\ comment' = text
    /\ UNCHANGED <<markers, editing, sortMode, nextMarkerId, issued>>
    /\ UNCHANGED <<clockVars, pickerVars, summaryVars, now, call, ioVars>>

\* saveComment that drops the edited marker when the comment is left empty
saveCommentDeletingEmpty ==
    /\ IF editing = <<>>
       THEN UNCHANGED <<markers, editing, comment>>
       ELSE /\ markers' =
                 IF comment = <<>>
                 THEN SelectSeq(markers, LAMBDA m : m.id # editing[1].id)
                 ELSE [i \in 1..Len(markers) |->
                         IF markers[i].id = editing[1].id
                         THEN [markers[i] EXCEPT !.comment = comment]
                         ELSE markers[i]]
            /\ editing' = <<>>
            /\ comment' = <<>>
    /\ UNCHANGED <<sortMode, nextMarkerId, issued>>
    /\ UNCHANGED <<clockVars, pickerVars, summaryVars, now, call, ioVars>>

\* saveComment that stores the edited marker again when the ledger has lost it
saveCommentRestoring ==
    /\ IF editing = <<>>
       THEN UNCHANGED <<markers, editing, comment>>
       ELSE /\ markers' =
                 IF \E i \in 1..Len(markers) : markers[i].id = editing[1].id
                 THEN [i \in 1..Len(markers) |->
                         IF markers[i].id = editing[1].id
                         THEN [markers[i] EXCEPT !.comment = comment]
                         ELSE markers[i]]
                 ELSE Append(markers, [editing[1] EXCEPT !.comment = comment])
            /\ editing' = <<>>
            /\ comment' = <<>>
    /\ UNCHANGED <<sortMode, nextMarkerId, issued>>
    /\ UNCHANGED <<clockVars, pickerVars, summaryVars, now, call, ioVars>>

saveComment ==
    /\ IF editing = <<>>
       THEN UNCHANGED <<markers, editing, comment>>
       ELSE /\ markers' = [i \in 1..Len(markers) |->
                             IF markers[i].id = editing[1].id
                             THEN [markers[i] EXCEPT !.comment = comment]
                             ELSE markers[i]]
            /\ editing' = <<>>
            /\ comment' = <<>>
    /\ UNCHANGED <<sortMode, nextMarkerId, issued>>
    /\ UNCHANGED <<clockVars, pickerVars, summaryVars, now, call, ioVars>>

\* A press on a marker's row opens it in the comment modal.
editMarker(i) ==
    /\ i \in 1..Len(markers)
    /\ editing' = <<markers[i]>>
    /\ comment' = markers[i].comment
    /\ UNCHANGED <<markers, sortMode, nextMarkerId, issued>>
    /\ UNCHANGED <<clockVars, pickerVars, summaryVars, now, call, ioVars>>

\* "Chiudi" of the comment modal
closeEditing ==
    /\ editing # <<>>
    /\ editing' = <<>>
    /\ UNCHANGED <<markers, comment, sortMode, nextMarkerId, issued>>
    /\ UNCHANGED <<clockVars, pickerVars, summaryVars, now, call, ioVars>>

\* Array.prototype.sort((a, b) => a.frames - b.frames) on a copy: the sort
\* of ECMAScript 2019 is stable, computed here by insertion from the left.
\* An insertion that puts a marker before the markers of the same frame
RECURSIVE insertBeforeEqual(_, _)
insertBeforeEqual(sorted, m) ==
    IF Len(sorted) = 0 THEN <<m>>
    ELSE IF sorted[Len(sorted)].frames - m.frames < 0 THEN Append(sorted, m)
    ELSE Append(insertBeforeEqual(SubSeq(sorted, 1, Len(sorted) - 1), m),
                sorted[Len(sorted)])

RECURSIVE insertByFrames(_, _)
insertByFrames(sorted, m) ==
    IF Len(sorted) = 0 THEN <<m>>
    ELSE IF sorted[Len(sorted)].frames - m.frames <= 0 THEN Append(sorted, m)
    ELSE Append(insertByFrames(SubSeq(sorted, 1, Len(sorted) - 1), m),
                sorted[Len(sorted)])

RECURSIVE sortByFrames(_)
sortByFrames(ms) ==
    IF Len(ms) = 0 THEN <<>>
    ELSE insertByFrames(sortByFrames(SubSeq(ms, 1, Len(ms) - 1)), ms[Len(ms)])

\* The markers in the order of the sort mode
ordered(ms, mode) == IF mode = "timecode" THEN sortByFrames(ms) ELSE ms

\* setSortMode with the list sorted in place: the stored array is the one
\* that Array.prototype.sort reorders
setSortModeSortingInPlace(mode) ==
    /\ sortMode' = mode
    /\ markers' = ordered(markers, mode)
    /\ UNCHANGED <<editing, comment, nextMarkerId, issued>>
    /\ UNCHANGED <<clockVars, pickerVars, summaryVars, now, call, ioVars>>

setSortMode(mode) ==
    /\ sortMode' = mode
    /\ UNCHANGED <<markers, editing, comment, nextMarkerId, issued>>
    /\ UNCHANGED <<clockVars, pickerVars, summaryVars, now, call, ioVars>>

----------------------------------------------------------------------------
(* The clock with its start timecode picker *)

ElapseSteps == {580}
WheelHChoices == {0, 1}
\* The frame rates of the picker other than 24: 25 fps is the rate at which
\* the tick's quotient rounds below the exact product.
ClockFpsChoices == {25, 30}

NextClock ==
    \/ \E dt \in ElapseSteps : Elapse(dt)
    \/ loop
    \/ play
    \/ stop
    \/ reset
    \/ \E d \in AdjustChoices : adjust(d)
    \/ \E v \in ClockFpsChoices : changeFps(v)
    \/ openTcModal
    \/ \E v \in WheelHChoices : setTcH(v)
    \/ confirmTcModal
    \/ cancelTcModal

SpecClock == Init /\ [][NextClock]_vars

----------------------------------------------------------------------------
(* The ledger with the clock's controls *)

\* The clock's controls are taken with the +1s button and the change to
\* 30 fps, and the wall clock stands still.
LedgerAdjustChoices == {1}
LedgerFpsChoices == {30}

NextLedger ==
    \/ capture
    \/ \E text \in CommentChoices : setComment(text)
    \/ saveComment
    \/ \E i \in 1..MaxIds : editMarker(i)
    \/ closeEditing
    \/ reset
    \/ play
    \/ loop
    \/ stop
    \/ \E d \in LedgerAdjustChoices : adjust(d)
    \/ \E v \in LedgerFpsChoices : changeFps(v)

SpecLedger == Init /\ [][NextLedger]_vars

----------------------------------------------------------------------------
(* The codec, applied to frame counts and to timecode strings *)

CodecFpsChoices == FpsChoices \cup {1, 120}
CodecHours == {0, 1, 9, 10, 23, 99, 100, 575}
CodecSixtieths == {0, 9, 10, 59}

\* Frame counts below fps*86400*24: the first ones, and those at the
\* boundaries of each field.
CodecFrames(fp) ==
    (0..MaxCodecFrame) \cup
    { (h * 3600 + m * 60 + sec) * fp + ff :
        h \in CodecHours, m \in CodecSixtieths, sec \in CodecSixtieths,
        ff \in {x \in {0, 9, 10, fp - 1} : x < fp} }

\* Timecode strings: up to MaxFields fields joined by ":"
DecodeFields == {<<>>, <<"0">>, <<"1">>, <<"5", "9">>, <<"x">>, <<"1", "x">>}
DecodeInputs ==
    { join(fs, <<":">>) :
        fs \in UNION { [1..n -> DecodeFields] : n \in 0..MaxFields } }

\* The codec's inputs: a frame count to encode, or a string to decode
InitCodec ==
    /\ fps = 24
    /\ startTC = StartTCDefault
    /\ frames = timecodeToFrames(StartTCDefault, 24)
    /\ playing = FALSE
    /\ markers = <<>>
    /\ editing = <<>>
    /\ comment = <<>>
    /\ sortMode = "timecode"
    /\ tcModalOpen = FALSE
    /\ tcH = 1 /\ tcM = 0 /\ tcS = 0 /\ tcF = 0
    /\ summary = <<>>
    /\ loadingSummary = FALSE
    /\ raf = FALSE
    /\ queued = 0
    /\ startMs = 0
    /\ baseFrames = 0
    /\ nextMarkerId = 1
    /\ now = 0
    /\ issued = <<>>
    /\ InitIO
    /\ \/ \E fp \in CodecFpsChoices : \E f \in CodecFrames(fp) :
            call = [NoCall EXCEPT !.fn = "encode", !.fps = fp, !.frames = f]
       \/ \E fp \in FpsChoices : \E tc \in DecodeInputs :
            call = [NoCall EXCEPT !.fn = "decode", !.fps = fp, !.tc = tc]

\* framesToTimecode, and timecodeToFrames of its result
encode ==
    /\ call.fn = "encode" /\ ~call.done
    /\ call' = [call EXCEPT
                  !.done = TRUE,
                  !.tc = framesToTimecode(call.frames, call.fps),
                  !.outFrames = timecodeToFrames(
                                   framesToTimecode(call.frames, call.fps), call.fps)]
    /\ UNCHANGED <<clockVars, pickerVars, ledgerVars, summaryVars, now, ioVars>>

decode ==
    /\ call.fn = "decode" /\ ~call.done
    /\ call' = [call EXCEPT !.done = TRUE,
                            !.outFrames = timecodeToFrames(call.tc, call.fps)]
    /\ UNCHANGED <<clockVars, pickerVars, ledgerVars, summaryVars, now, ioVars>>

NextCodec == encode \/ decode

SpecCodec == InitCodec /\ [][NextCodec]_vars

----------------------------------------------------------------------------
(* The sorted view of a ledger *)

\* useMemo: the markers as the list shows them
sortedMarkers == ordered(markers, sortMode)

SortFrames == {0, 120, 240, 86400}

\* A ledger of n markers captured in a row at frames of SortFrames.
InitSort ==
    /\ fps = 24
    /\ startTC = StartTCDefault
    /\ frames = timecodeToFrames(StartTCDefault, 24)
    /\ playing = FALSE
    /\ \E n \in 0..MaxSortLen : \E fs \in [1..n -> SortFrames] :
         /\ markers = [i \in 1..n |-> [id |-> i, frames |-> fs[i], comment |-> <<>>]]
         /\ issued = [i \in 1..n |-> i]
         /\ nextMarkerId = n + 1
    /\ editing = <<>>
    /\ comment = <<>>
    /\ sortMode = "timecode"
    /\ tcModalOpen = FALSE
    /\ tcH = 1 /\ tcM = 0 /\ tcS = 0 /\ tcF = 0
    /\ summary = <<>>
    /\ loadingSummary = FALSE
    /\ raf = FALSE
    /\ queued = 0
    /\ startMs = 0
    /\ baseFrames = 0
    /\ now = 0
    /\ call = NoCall
    /\ InitIO

NextSort == \E mode \in {"created", "timecode"} : setSortMode(mode)

SpecSort == InitSort /\ [][NextSort]_vars

----------------------------------------------------------------------------
(* Playing from frame 0 for ten seconds, the callback running every 10 to   *)
(* 20 ms                                                                    *)

DriftMs == 10 * 1000
TickGaps == 10..20
MaxGap == CHOOSE g \in TickGaps : \A h \in TickGaps : h <= g
ZeroTC == <<"0", "0", ":", "0", "0", ":", "0", "0", ":", "0", "0">>

\* Just after play at the start timecode 00:00:00:00
InitDrift ==
    /\ fps \in FpsChoices
    /\ startTC = ZeroTC
    /\ frames = 0
    /\ playing = TRUE
    /\ markers = <<>>
    /\ editing = <<>>
    /\ comment = <<>>
    /\ sortMode = "timecode"
    /\ tcModalOpen = FALSE
    /\ tcH = 0 /\ tcM = 0 /\ tcS = 0 /\ tcF = 0
    /\ summary = <<>>
    /\ loadingSummary = FALSE
    /\ raf = TRUE
    /\ queued = 1
    /\ startMs = 0
    /\ baseFrames = 0
    /\ nextMarkerId = 1
    /\ now = 0
    /\ issued = <<>>
    /\ call = NoCall
    /\ InitIO

\* The callback runs dt ms after the last one.
loopAfter(dt) ==
    /\ now < DriftMs
    /\ raf
    /\ now' = now + dt
    /\ frames' = loopFrames(now + dt)
    /\ UNCHANGED <<fps, playing, raf, queued, startMs, baseFrames>>
    /\ UNCHANGED <<pickerVars, ledgerVars, summaryVars, call, ioVars>>

NextDrift == \E dt \in TickGaps : loopAfter(dt)

SpecDrift == InitDrift /\ [][NextDrift]_vars

----------------------------------------------------------------------------
(* The FPS selector, pressed while stopped at any position *)

\* Stopped at a frame count up to MaxConvertFrame, at any frame rate
InitConvert ==
    /\ fps \in FpsChoices
    /\ startTC = ZeroTC
    /\ frames \in 0..MaxConvertFrame
    /\ playing = FALSE
    /\ markers = <<>>
    /\ editing = <<>>
    /\ comment = <<>>
    /\ sortMode = "timecode"
    /\ tcModalOpen = FALSE
    /\ tcH = 0 /\ tcM = 0 /\ tcS = 0 /\ tcF = 0
    /\ summary = <<>>
    /\ loadingSummary = FALSE
    /\ raf = FALSE
    /\ queued = 0
    /\ startMs = 0
    /\ baseFrames = 0
    /\ nextMarkerId = 1
    /\ now = 0
    /\ issued = <<>>
    /\ call = NoCall
    /\ InitIO

NextConvert == \E v \in FpsChoices : changeFps(v)

SpecConvert == InitConvert /\ [][NextConvert]_vars

----------------------------------------------------------------------------
(* Plain-text export *)

\* A line numbered with the marker's id instead of its position
markerLineById(m, index, fp) ==
    trimEnd(<<"#">> \o padStart(toString(m.id), 2) \o <<" ", "[">>
              \o framesToTimecode(m.frames, fp) \o <<"]", " ">> \o trim(m.comment))

\* One marker of buildMarkersText, index counted from 1
markerLine(m, index, fp) ==
    trimEnd(<<"#">> \o padStart(toString(index), 2) \o <<" ", "[">>
              \o framesToTimecode(m.frames, fp) \o <<"]", " ">> \o trim(m.comment))

buildMarkersTextOf(ms, mode, fp) ==
    LET o == ordered(ms, mode)
    IN  join([i \in 1..Len(o) |-> markerLine(o[i], i, fp)], <<"\n">>)

\* buildMarkersText of the current render
buildMarkersText == buildMarkersTextOf(markers, sortMode, fps)

NoMarkersToExport == [title |-> "Export", message |-> "Nessun marker da esportare."]
NoMarkersToCopy == [title |-> "Export", message |-> "Nessun marker da copiare."]
Copied == [title |-> "Copiato", message |-> "Markers copiati negli appunti."]

copyMarkersToClipboard ==
    /\ IF Len(markers) = 0
       THEN alert' = NoMarkersToCopy /\ UNCHANGED clipboard
       ELSE /\ clipboard' = <<buildMarkersText>>
            /\ alert' = Copied
    /\ UNCHANGED <<menuOpen, namePrompt, written, envVars, requests>>
    /\ UNCHANGED <<clockVars, pickerVars, ledgerVars, summaryVars, now, call>>

\* The button of a notice
dismissAlert ==
    /\ alert # NoAlert
    /\ alert' = NoAlert
    /\ UNCHANGED <<menuOpen, namePrompt, written, clipboard, envVars, requests>>
    /\ UNCHANGED <<clockVars, pickerVars, ledgerVars, summaryVars, now, call>>

----------------------------------------------------------------------------
(* Export to a file, the export menu and the summary *)

\* String.prototype.replaceAll(ch, rep) for a one-character pattern
RECURSIVE replaceAll(_, _, _)
replaceAll(s, ch, rep) ==
    IF Len(s) = 0 THEN <<>>
    ELSE (IF s[1] = ch THEN rep ELSE <<s[1]>>) \o replaceAll(Tail(s), ch, rep)

\* esc replacing "&" after the other four characters
escAmpersandLast(s) ==
    replaceAll(
      replaceAll(
        replaceAll(
          replaceAll(
            replaceAll(s, "<", <<"&", "l", "t", ";">>),
            ">", <<"&", "g", "t", ";">>),
          "\"", <<"&", "q", "u", "o", "t", ";">>),
        "'", <<"&", "#", "0", "3", "9", ";">>),
      "&", <<"&", "a", "m", "p", ";">>)

\* esc of exportMarkersPdf
esc(s) ==
    replaceAll(
      replaceAll(
        replaceAll(
          replaceAll(
            replaceAll(s, "&", <<"&", "a", "m", "p", ";">>),
            "<", <<"&", "l", "t", ";">>),
          ">", <<"&", "g", "t", ";">>),
        "\"", <<"&", "q", "u", "o", "t", ";">>),
      "'", <<"&", "#", "0", "3", "9", ";">>)

\* The table rows of the PDF
pdfRows(ms, mode, fp) ==
    LET o == ordered(ms, mode)
    IN  [i \in 1..Len(o) |->
           [num |-> <<"#">> \o padStart(toString(i), 2),
            tc |-> esc(framesToTimecode(o[i].frames, fp)),
            cmt |-> esc(trim(o[i].comment))]]

\* What an export writes: the text of a .txt, or the header data and the
\* rows of a .pdf
TextContent(text) == [text |-> text, rows |-> <<>>, sort |-> "", total |-> 0, fps |-> 0]
PdfContent(ms, mode, fp) ==
    [text |-> <<>>, rows |-> pdfRows(ms, mode, fp), sort |-> mode,
     total |-> Len(ms), fps |-> fp]

txt == <<"t", "x", "t">>
pdf == <<"p", "d", "f">>
MarkersPrefix == <<"m", "a", "r", "k", "e", "r", "s", "_">>
FpsSuffix == <<"f", "p", "s">>
TimecodeSuffix == <<"_", "t", "i", "m", "e", "c", "o", "d", "e">>
OrderSuffix == <<"_", "o", "r", "d", "i", "n", "e">>

PdfNotOnWeb == [title |-> "Export PDF", message |-> "Export PDF non supportato su web."]
SharingUnavailable ==
    [title |-> "Export", message |-> "Sharing non disponibile su questo dispositivo."]
NoMarkersToSummarize == [title |-> "Riepilogo", message |-> "Nessun marker disponibile."]
KeyMissing ==
    [title |-> "Gemini API key mancante",
     message |-> "Aggiungi EXPO_PUBLIC_GEMINI_KEY nel file .env e riavvia l'app."]

\* onPressExport: the export menu, an action sheet on iOS and an alert with
\* buttons elsewhere
onPressExport ==
    /\ IF Len(markers) = 0
       THEN alert' = NoMarkersToExport /\ UNCHANGED menuOpen
       ELSE menuOpen' = TRUE /\ UNCHANGED alert
    /\ UNCHANGED <<namePrompt, written, clipboard, envVars, requests>>
    /\ UNCHANGED <<clockVars, pickerVars, ledgerVars, summaryVars, now, call>>

\* A button of the export menu closes it; TXT, PDF and "Copia negli appunti"
\* then call exportMarkers, exportMarkersPdf and copyMarkersToClipboard.
closeMenu ==
    /\ menuOpen
    /\ menuOpen' = FALSE
    /\ UNCHANGED <<alert, namePrompt, written, clipboard, envVars, requests>>
    /\ UNCHANGED <<clockVars, pickerVars, ledgerVars, summaryVars, now, call>>

\* exportMarkers without its check of an empty ledger
exportMarkersUnguarded ==
    /\ namePrompt = <<>>
    /\ namePrompt' = <<[ext |-> txt,
                        defaultName |-> MarkersPrefix \o toString(fps) \o FpsSuffix,
                        content |-> TextContent(buildMarkersText)]>>
    /\ UNCHANGED <<alert, menuOpen, written, clipboard, envVars, requests>>
    /\ UNCHANGED <<clockVars, pickerVars, ledgerVars, summaryVars, now, call>>

\* exportMarkers up to its await of askFileName.  The file-name prompt is
\* modal: no export starts while one is open.
exportMarkers ==
    /\ IF Len(markers) = 0
       THEN alert' = NoMarkersToExport /\ UNCHANGED namePrompt
       ELSE /\ namePrompt = <<>>
            /\ namePrompt' = <<[ext |-> txt,
                                defaultName |-> MarkersPrefix \o toString(fps) \o FpsSuffix,
                                content |-> TextContent(buildMarkersText)]>>
            /\ UNCHANGED alert
    /\ UNCHANGED <<menuOpen, written, clipboard, envVars, requests>>
    /\ UNCHANGED <<clockVars, pickerVars, ledgerVars, summaryVars, now, call>>

\* exportMarkersPdf up to its await of askFileName
exportMarkersPdf ==
    /\ IF Len(markers) = 0
       THEN alert' = NoMarkersToExport /\ UNCHANGED namePrompt
       ELSE IF platform = "web"
       THEN alert' = PdfNotOnWeb /\ UNCHANGED namePrompt
       ELSE /\ namePrompt = <<>>
            /\ namePrompt' = <<[ext |-> pdf,
                                defaultName |->
                                  MarkersPrefix \o toString(fps) \o FpsSuffix
                                    \o (IF sortMode = "timecode" THEN TimecodeSuffix
                                        ELSE OrderSuffix),
                                content |-> PdfContent(markers, sortMode, fps)]>>
            /\ UNCHANGED alert
    /\ UNCHANGED <<menuOpen, written, clipboard, envVars, requests>>
    /\ UNCHANGED <<clockVars, pickerVars, ledgerVars, summaryVars, now, call>>

\* resolveFileName building the text when the name arrives, from the ledger
\* of that moment
resolveFileNameRebuilding(draft, canShare) ==
    /\ namePrompt # <<>>
    /\ LET np == namePrompt[1]
           n == trim(draft)
           fileName == (IF Len(n) > 0 THEN n ELSE np.defaultName) \o <<".">> \o np.ext
       IN  /\ written' = <<[name |-> fileName,
                            content |-> IF np.ext = txt
                                        THEN TextContent(buildMarkersText)
                                        ELSE np.content]>>
           /\ alert' = IF np.ext = pdf /\ ~canShare THEN SharingUnavailable ELSE alert
    /\ namePrompt' = <<>>
    /\ UNCHANGED <<menuOpen, clipboard, envVars, requests>>
    /\ UNCHANGED <<clockVars, pickerVars, ledgerVars, summaryVars, now, call>>

\* askFileName resolves, with the name typed (draft) or, on cancel and on an
\* empty name, the default one; the export then writes the file and shares
\* it.  The PDF export raises a notice when sharing is not available.
resolveFileName(draft, canShare) ==
    /\ namePrompt # <<>>
    /\ LET np == namePrompt[1]
           n == trim(draft)
           fileName == (IF Len(n) > 0 THEN n ELSE np.defaultName) \o <<".">> \o np.ext
       IN  /\ written' = <<[name |-> fileName, content |-> np.content]>>
           /\ alert' = IF np.ext = pdf /\ ~canShare THEN SharingUnavailable ELSE alert
    /\ namePrompt' = <<>>
    /\ UNCHANGED <<menuOpen, clipboard, envVars, requests>>
    /\ UNCHANGED <<clockVars, pickerVars, ledgerVars, summaryVars, now, call>>

\* The text sent for summary: "[timecode] comment" of each marker
summaryText(ms, mode, fp) ==
    LET o == ordered(ms, mode)
    IN  join([i \in 1..Len(o) |->
                <<"[">> \o framesToTimecode(o[i].frames, fp) \o <<"]", " ">>
                  \o o[i].comment],
             <<"\n">>)

\* generateSummary up to its await of fetch.  Its button is disabled while
\* loadingSummary.
generateSummary ==
    /\ ~loadingSummary
    /\ IF Len(markers) = 0
       THEN alert' = NoMarkersToSummarize /\ UNCHANGED <<summaryVars, requests>>
       ELSE IF ~geminiKey
       THEN alert' = KeyMissing /\ UNCHANGED <<summaryVars, requests>>
       ELSE /\ loadingSummary' = TRUE
            /\ summary' = <<>>
            /\ requests' = Append(requests, summaryText(markers, sortMode, fps))
            /\ UNCHANGED alert
    /\ UNCHANGED <<menuOpen, namePrompt, written, clipboard, envVars>>
    /\ UNCHANGED <<clockVars, pickerVars, ledgerVars, now, call>>

GenerationError ==
    <<"E", "r", "r", "o", "r", "e", " ", "d", "u", "r", "a", "n", "t", "e",
      " ", "l", "a", " ", "g", "e", "n", "e", "r", "a", "z", "i", "o", "n",
      "e", ".">>
NetworkError ==
    <<"E", "r", "r", "o", "r", "e", " ", "d", "i", " ", "r", "e", "t", "e",
      " ", "d", "u", "r", "a", "n", "t", "e", " ", "l", "a", " ", "c", "h",
      "i", "a", "m", "a", "t", "a", " ", "a", " ", "G", "e", "m", "i", "n",
      "i", ".">>
\* A text the service answers with, and a message of an error it reports
SummaryAnswer == <<"o", "k">>
ServiceMessage == <<"q", "u", "o", "t", "a">>

\* What the awaited fetch and res.json() come to: a candidate text, an error
\* object, a body with neither, or a rejection.
Outcomes == {"text", "error", "neither", "rejected"}

\* summaryResponse without the finally block: the flag is cleared after the
\* try block only, which a rejection leaves
summaryResponseNoFinally(outcome) ==
    /\ requests # <<>>
    /\ requests' = Tail(requests)
    /\ summary' = CASE outcome = "text" -> SummaryAnswer
                    [] outcome = "error" -> ServiceMessage
                    [] outcome = "neither" -> GenerationError
                    [] OTHER -> NetworkError
    /\ loadingSummary' = IF outcome = "rejected" THEN loadingSummary ELSE FALSE
    /\ UNCHANGED <<alert, menuOpen, namePrompt, written, clipboard, envVars>>
    /\ UNCHANGED <<clockVars, pickerVars, ledgerVars, now, call>>

\* The rest of generateSummary: try, catch and finally
summaryResponse(outcome) ==
    /\ requests # <<>>
    /\ requests' = Tail(requests)
    /\ summary' = CASE outcome = "text" -> SummaryAnswer
                    [] outcome = "error" -> ServiceMessage
                    [] outcome = "neither" -> GenerationError
                    [] OTHER -> NetworkError
    /\ loadingSummary' = FALSE
    /\ UNCHANGED <<alert, menuOpen, namePrompt, written, clipboard, envVars>>
    /\ UNCHANGED <<clockVars, pickerVars, ledgerVars, now, call>>

----------------------------------------------------------------------------
(* The text of a ledger, copied at any frame rate and in either sort mode *)

TextFrames == {0, 120}
TextComments == {<<>>, <<"i", "n", "t", "r", "o">>, <<"s", "t", "a", "r", "t">>,
                 <<" ", "a", "\n">>}

\* A ledger of n markers captured in a row and commented
InitText ==
    /\ fps = 24
    /\ startTC = StartTCDefault
    /\ frames = timecodeToFrames(StartTCDefault, 24)
    /\ playing = FALSE
    /\ \E n \in 0..MaxTextLen :
         \E fs \in [1..n -> TextFrames] : \E cs \in [1..n -> TextComments] :
           /\ markers = [i \in 1..n |->
                           [id |-> i, frames |-> fs[i], comment |-> cs[i]]]
           /\ issued = [i \in 1..n |-> i]
           /\ nextMarkerId = n + 1
    /\ editing = <<>>
    /\ comment = <<>>
    /\ sortMode = "timecode"
    /\ tcModalOpen = FALSE
    /\ tcH = 1 /\ tcM = 0 /\ tcS = 0 /\ tcF = 0
    /\ summary = <<>>
    /\ loadingSummary = FALSE
    /\ raf = FALSE
    /\ queued = 0
    /\ startMs = 0
    /\ baseFrames = 0
    /\ now = 0
    /\ call = NoCall
    /\ InitIO

NextText ==
    \/ copyMarkersToClipboard
    \/ dismissAlert
    \/ \E mode \in {"created", "timecode"} : setSortMode(mode)
    \/ \E v \in FpsChoices : changeFps(v)

SpecText == InitText /\ [][NextText]_vars

----------------------------------------------------------------------------
(* The export and summary buttons, on each platform, with and without key *)

\* The ledgers exported: none, the two captures of the plain-text example,
\* and a marker whose comment has the characters that the PDF escapes
ExportLedgers ==
    { <<>>,
      <<[id |-> 1, frames |-> 120, comment |-> <<"i", "n", "t", "r", "o">>],
        [id |-> 2, frames |-> 0, comment |-> <<"s", "t", "a", "r", "t">>]>>,
      <<[id |-> 1, frames |-> 0, comment |-> <<"<", "&", "'", "\"", ">">>]>> }

NameDrafts == {<<>>, <<" ", "x">>}

InitExport ==
    /\ fps = 24
    /\ startTC = StartTCDefault
    /\ frames = timecodeToFrames(StartTCDefault, 24)
    /\ playing = FALSE
    /\ markers \in ExportLedgers
    /\ issued = [i \in 1..Len(markers) |-> i]
    /\ nextMarkerId = Len(markers) + 1
    /\ editing = <<>>
    /\ comment = <<>>
    /\ sortMode = "timecode"
    /\ tcModalOpen = FALSE
    /\ tcH = 1 /\ tcM = 0 /\ tcS = 0 /\ tcF = 0
    /\ summary = <<>>
    /\ loadingSummary = FALSE
    /\ raf = FALSE
    /\ queued = 0
    /\ startMs = 0
    /\ baseFrames = 0
    /\ now = 0
    /\ call = NoCall
    /\ platform \in Platforms
    /\ geminiKey \in BOOLEAN
    /\ alert = NoAlert
    /\ menuOpen = FALSE
    /\ namePrompt = <<>>
    /\ written = <<>>
    /\ clipboard = <<>>
    /\ requests = <<>>

NextExport ==
    \/ onPressExport
    \/ closeMenu
    \/ exportMarkers
    \/ exportMarkersPdf
    \/ copyMarkersToClipboard
    \/ \E draft \in NameDrafts : \E canShare \in BOOLEAN :
         resolveFileName(draft, canShare)
    \/ generateSummary
    \/ \E outcome \in Outcomes : summaryResponse(outcome)
    \/ dismissAlert
    \/ reset

SpecExport == InitExport /\ [][NextExport]_vars

\* The same buttons, every awaited fetch settling: the promise of fetch is
\* fulfilled or rejected once the network stack is done with the request.
SpecSummary ==
    /\ InitExport
    /\ [][NextExport]_vars
    /\ WF_vars(\E outcome \in Outcomes : summaryResponse(outcome))

----------------------------------------------------------------------------
(* The clock and the ledger while an export or a summary request is pending *)

\* The file-name prompt is answered with the default name, the summary
\* request with a text or with a rejection; the FPS selector is pressed on 25.
BusyDrafts == {<<>>}
BusyOutcomes == {"text", "rejected"}
BusyFpsChoices == {25}

NextBusy ==
    \/ \E dt \in ElapseSteps : Elapse(dt)
    \/ loop
    \/ play
    \/ stop
    \/ \E v \in BusyFpsChoices : changeFps(v)
    \/ capture
    \/ exportMarkers
    \/ \E draft \in BusyDrafts : resolveFileName(draft, TRUE)
    \/ generateSummary
    \/ \E outcome \in BusyOutcomes : summaryResponse(outcome)

SpecBusy == Init /\ [][NextBusy]_vars

----------------------------------------------------------------------------
(* The exports of a ledger whose comments hold markup characters *)

\* The comments are the strings of up to MaxEscLen characters of EscAlphabet:
\* the five characters that esc replaces, a letter and the ";" of an entity.
EscAlphabet == {"&", "<", ">", "\"", "'", "a", ";"}
EscComments == UNION { [1..n -> EscAlphabet] : n \in 0..MaxEscLen }

\* One marker commented with any of EscComments, alone or followed by a
\* second marker
InitEscape ==
    /\ fps = 24
    /\ startTC = StartTCDefault
    /\ frames = timecodeToFrames(StartTCDefault, 24)
    /\ playing = FALSE
    /\ \E c \in EscComments : \E n \in 1..2 :
         markers = SubSeq(<<[id |-> 1, frames |-> 120, comment |-> c],
                            [id |-> 2, frames |-> 0, comment |-> <<"'", "a">>]>>,
                          1, n)
    /\ issued = [i \in 1..Len(markers) |-> i]
    /\ nextMarkerId = Len(markers) + 1
    /\ editing = <<>>
    /\ comment = <<>>
    /\ sortMode = "timecode"
    /\ tcModalOpen = FALSE
    /\ tcH = 1 /\ tcM = 0 /\ tcS = 0 /\ tcF = 0
    /\ summary = <<>>
    /\ loadingSummary = FALSE
    /\ raf = FALSE
    /\ queued = 0
    /\ startMs = 0
    /\ baseFrames = 0
    /\ now = 0
    /\ call = NoCall
    /\ InitIO

NextEscape ==
    \/ exportMarkersPdf
    \/ copyMarkersToClipboard
    \/ \E mode \in {"created", "timecode"} : setSortMode(mode)

SpecEscape == InitEscape /\ [][NextEscape]_vars

----------------------------------------------------------------------------
(* The ledger edited while a text export waits for its file name *)

NextSnapshot ==
    \/ capture
    \/ \E text \in CommentChoices : setComment(text)
    \/ saveComment
    \/ reset
    \/ \E mode \in {"created", "timecode"} : setSortMode(mode)
    \/ \E v \in LedgerFpsChoices : changeFps(v)
    \/ exportMarkers
    \/ \E draft \in BusyDrafts : resolveFileName(draft, TRUE)

SpecSnapshot == Init /\ [][NextSnapshot]_vars

----------------------------------------------------------------------------
(* The start timecode picker with the FPS selector and reset *)

\* The wheel items taken: the first and the last second, and frames up to
\* the last one of each rate.
WheelSChoices == {0, 59}
WheelFChoices == {0, 12, 23, 24, 29}
PickerAdjustChoices == {-1, 1}

\* The picker is a Modal over the screen: the FPS selector, the seek buttons
\* and Reset are pressed while it is closed.  Conferma is taken with the FF
\* wheel's value among the items of the current rate.
NextPicker ==
    \/ openTcModal
    \/ \E v \in WheelSChoices : setTcS(v)
    \/ \E v \in WheelFChoices : setTcF(v)
    \/ tcF < fps /\ confirmTcModal
    \/ cancelTcModal
    \/ ~tcModalOpen /\ \E v \in FpsChoices : changeFps(v)
    \/ ~tcModalOpen /\ \E d \in PickerAdjustChoices : adjust(d)
    \/ ~tcModalOpen /\ reset

SpecPicker == Init /\ [][NextPicker]_vars

----------------------------------------------------------------------------
(* Properties *)

Range(f) == {f[i] : i \in DOMAIN f}

\* C1: for every fps of {24, 25, 30} and every frame count f with
\* 0 <= f < fps*86400*24, decoding the timecode that f encodes to gives f
\* back.
RoundTrip ==
    (/\ call.fn = "encode" /\ call.done
     /\ call.fps \in FpsChoices
     /\ call.frames >= 0 /\ call.frames < call.fps * 86400 * 24)
    => call.outFrames = call.frames

\* The last frame below 24 days at 30 fps, 575:59:59:29, has been encoded
\* and decoded.
RoundTripWitness ==
    /\ call.fn = "encode" /\ call.done
    /\ call.fps = 30
    /\ call.frames = 30 * 86400 * 24 - 1
    /\ call.outFrames = call.frames

\* C2: no marker id is ever issued twice (the ids issued over the ledger's
\* lifetime are strictly increasing), and the ids of the markers in the
\* ledger are issued ids, pairwise distinct and strictly increasing in
\* insertion order.
IdsUniqueAndIncreasing ==
    /\ \A i, j \in 1..Len(issued) : i < j => issued[i] < issued[j]
    /\ \A i, j \in 1..Len(markers) : i < j => markers[i].id < markers[j].id
    /\ \A i \in 1..Len(markers) : markers[i].id \in Range(issued)

\* Two markers are in the ledger.
TwoMarkersWitness == Len(markers) = 2

\* C3: reset removes all markers and leaves the id counter unchanged, so the
\* ids issued are 1, 2, 3, ... across clears: after N captures, a clear and
\* M captures the ids issued are 1..N+M and the ledger holds the last of
\* them.
ClearKeepsCounter ==
    /\ [][reset => (markers' = <<>> /\ nextMarkerId' = nextMarkerId)]_vars
    /\ [](/\ issued = [i \in 1..Len(issued) |-> i]
          /\ nextMarkerId = Len(issued) + 1
          /\ Len(markers) <= Len(issued)
          /\ \A i \in 1..Len(markers) :
               markers[i].id = Len(issued) - Len(markers) + i)

\* A marker captured after a clear that followed a capture: the oldest
\* marker of the ledger is not marker 1.
CapturedAfterClearWitness == Len(markers) > 0 /\ markers[1].id > 1

\* C4: the list in "timecode" mode is a permutation of the ledger, ascending
\* by frames, in which markers of equal frames keep their insertion order;
\* frames [120, 0, 120] with ids [1, 2, 3] list as ids [2, 1, 3].
PositionOf(m) == CHOOSE i \in 1..Len(markers) : markers[i] = m
NumericField(fld) == Len(fld) > 0 /\ \A i \in 1..Len(fld) : IsDigit(fld[i])
WellFormed(tc) ==
    LET g == split(tc, ":")
    IN  Len(g) = 4 /\ \A i \in 1..4 : NumericField(g[i])
DecodeContract ==
    (call.fn = "decode" /\ call.done) =>
      IF WellFormed(call.tc)
      THEN LET g == split(call.tc, ":")
           IN  call.outFrames =
                 (DecimalValue(g[1]) * 3600 + DecimalValue(g[2]) * 60
                    + DecimalValue(g[3])) * call.fps + DecimalValue(g[4])
      ELSE call.outFrames = 0

\* C6: encode(f, fps) is four groups of at least 2 digits separated by ":",
\* with ff = f mod fps, ss = floor(f/fps) mod 60, mm = floor(f/fps/60) mod 60
\* and hh = floor(f/fps/3600): ff < fps, ss < 60, mm < 60, and hh is not
\* bounded, rendered with more than 2 digits past 99 hours.
EncodeFormat ==
    (call.fn = "encode" /\ call.done) =>
      LET g == split(call.tc, ":")
          f == call.frames
          fp == call.fps
      IN  /\ Len(g) = 4
          /\ \A i \in 1..4 :
               Len(g[i]) >= 2 /\ \A j \in 1..Len(g[i]) : IsDigit(g[i][j])
          /\ DecimalValue(g[4]) = f % fp
          /\ DecimalValue(g[3]) = (f \div fp) % 60
          /\ DecimalValue(g[2]) = ((f \div fp) \div 60) % 60
          /\ DecimalValue(g[1]) = (f \div fp) \div 3600
          /\ DecimalValue(g[4]) < fp
          /\ DecimalValue(g[3]) < 60
          /\ DecimalValue(g[2]) < 60
          /\ (f \div fp) \div 3600 > 99 => Len(g[1]) > 2

\* A frame count past 99 hours has been encoded.
EncodePastNinetyNineHoursWitness ==
    /\ call.fn = "encode" /\ call.done
    /\ call.frames >= 100 * 3600 * call.fps
    /\ Len(split(call.tc, ":")[1]) = 3

\* C7: every tick at time now sets
\* frames = baseFrames + floor((now - startMs) * fps / 1000).
TickFormula ==
    [][loop => frames' = baseFrames + ((now - startMs) * fps) \div 1000]_vars

\* C8: playing from frame 0 with ticks 10 to 20 ms apart, the frame count of
\* any tick that can be the last one of 10 seconds (no later than one gap
\* before the end) is within 1 of fps*10.
DriftBound ==
    now > DriftMs - MaxGap =>
      /\ frames - fps * (DriftMs \div 1000) <= 1
      /\ fps * (DriftMs \div 1000) - frames <= 1

\* The ten seconds have passed, at 25 fps.
DriftWitness == now >= DriftMs /\ fps = 25 /\ frames = 250 /\ playing

\* C9: frames is never negative.
FramesNonNegative == frames >= 0

\* While playing from a later baseline, the position is back at frame 0.
ClampedWhilePlayingWitness == playing /\ baseFrames > 0 /\ frames = 0

\* C10: adjust while Playing re-baselines: baseFrames becomes the new
\* position max(0, frames + d*fps) and startMs becomes now, so that a tick
\* yields the new position plus the frames elapsed since the adjust.
AdjustRebaselines ==
    [][\A d \in AdjustChoices :
         (playing /\ adjust(d)) =>
            /\ baseFrames' = adjusted(d)
            /\ startMs' = now
            /\ baseFrames' + FloorMulDiv(now' - startMs', 1000, fps') = adjusted(d)
      ]_vars

\* C11: changeFps from fps A to fps B at frame f sets frames to f*B/A rounded
\* to the nearest integer, halves up, and fps to B.
FpsChangeRounds ==
    [][\A B \in FpsChoices :
         changeFps(B) =>
            /\ frames' = (2 * frames * B + fps) \div (2 * fps)
            /\ fps' = B
      ]_vars

\* C12: the plain text of an ordered ledger is, for the marker at position i
\* of the chosen order, "#" + i padded to 2 digits + " [" + timecode at the
\* current fps + "]" followed, when the trimmed comment is not empty, by
\* " " + the trimmed comment, the markers joined by "\n"; at 24 fps, captures
\* at frame 120 ("intro") then frame 0 ("start") give in timecode order
\* "#01 [00:00:00:00] start\n#02 [00:00:05:00] intro".
ExpectedLine(m, i, fp) ==
    <<"#">> \o (IF i < 10 THEN <<"0">> ELSE <<>>) \o toString(i)
      \o <<" ", "[">> \o framesToTimecode(m.frames, fp) \o <<"]">>
      \o (IF trim(m.comment) = <<>> THEN <<>> ELSE <<" ">> \o trim(m.comment))
IsExampleLedger ==
    /\ Len(markers) = 2
    /\ markers[1].frames = 120 /\ markers[1].comment = <<"i", "n", "t", "r", "o">>
    /\ markers[2].frames = 0 /\ markers[2].comment = <<"s", "t", "a", "r", "t">>
ExampleText ==
    <<"#", "0", "1", " ", "[", "0", "0", ":", "0", "0", ":", "0", "0", ":",
      "0", "0", "]", " ", "s", "t", "a", "r", "t", "\n",
      "#", "0", "2", " ", "[", "0", "0", ":", "0", "0", ":", "0", "5", ":",
      "0", "0", "]", " ", "i", "n", "t", "r", "o">>
PlainTextFormat ==
    [][(copyMarkersToClipboard /\ Len(markers) > 0) =>
         LET o == sortedMarkers
         IN  /\ clipboard' =
                  <<join([i \in 1..Len(o) |-> ExpectedLine(o[i], i, fps)], <<"\n">>)>>
             /\ (IsExampleLedger /\ fps = 24 /\ sortMode = "timecode")
                  => clipboard' = <<ExampleText>>
      ]_vars

\* The example ledger has been copied at 24 fps in timecode order.
ExampleCopiedWitness ==
    /\ IsExampleLedger /\ fps = 24 /\ sortMode = "timecode"
    /\ clipboard = <<ExampleText>>
    /\ alert = Copied

\* C13: with an empty ledger, the text export, the PDF export, the clipboard
\* copy, the export menu and the summary request only raise a notice: no
\* file-name prompt, no file, no clipboard text, no request, no menu, and no
\* other change of state.
EmptyLedgerRefusal ==
    [][(/\ Len(markers) = 0
        /\ \/ exportMarkers
           \/ exportMarkersPdf
           \/ copyMarkersToClipboard
           \/ onPressExport
           \/ generateSummary)
       => /\ alert' \in {NoMarkersToExport, NoMarkersToCopy, NoMarkersToSummarize}
          /\ UNCHANGED <<menuOpen, namePrompt, written, clipboard, requests, envVars>>
          /\ UNCHANGED <<clockVars, pickerVars, ledgerVars, summaryVars, now, call>>
      ]_vars

\* A copy was refused on an empty ledger, nothing ever written, copied or
\* requested.
RefusedCopyWitness ==
    /\ Len(markers) = 0
    /\ alert = NoMarkersToCopy
    /\ namePrompt = <<>> /\ written = <<>> /\ clipboard = <<>> /\ requests = <<>>
    /\ ~loadingSummary /\ ~menuOpen

\* C14: every summary request ends with the loading flag back to false and
\* without a new request: a rejected fetch stores the network error text as
\* the summary, an error reported by the service its message; the flag is
\* true only while a request is in flight, and always returns to false.
SummaryAlwaysSettles ==
    /\ [][\A outcome \in Outcomes :
            summaryResponse(outcome) =>
               /\ loadingSummary' = FALSE
               /\ requests' = Tail(requests)
               /\ outcome = "rejected" => summary' = NetworkError
               /\ outcome = "error" => summary' = ServiceMessage
               /\ outcome = "neither" => summary' = GenerationError
         ]_vars
    /\ [](loadingSummary => requests # <<>>)
    /\ (loadingSummary ~> ~loadingSummary)

\* A request has failed on the network: its error text is displayed and
\* nothing is loading or in flight.
NetworkErrorShownWitness ==
    summary = NetworkError /\ ~loadingSummary /\ requests = <<>> /\ Len(markers) > 0

\* C15: the clock can be reset with the markers left unchanged, and the
\* markers can be cleared with the clock left unchanged: the step that takes
\* the clock back to the start frame keeps the ledger, and a step that
\* empties the ledger keeps frames and the run state.
ResetAndClearIndependent ==
    [][/\ reset => markers' = markers
       /\ (Len(markers) > 0 /\ Len(markers') = 0) =>
            (frames' = frames /\ playing' = playing /\ raf' = raf)
      ]_vars

\* C16: stop leaves the clock Stopped with no callback scheduled and frames
\* as it was; no callback is scheduled while Stopped, and while Stopped
\* frames changes only by reset, adjust, changeFps or a confirmed start
\* timecode, however much time passes.
StopFreezes ==
    /\ [][stop => (playing' = FALSE /\ raf' = FALSE /\ frames' = frames)]_vars
    /\ [](~playing => ~raf)
    /\ [][(~playing /\ frames' # frames) =>
            \/ reset
            \/ \E d \in AdjustChoices : adjust(d)
            \/ \E v \in FpsChoices : changeFps(v)
            \/ confirmTcModal
         ]_vars

\* Stopped after playing, the wall clock has moved on and the tick formula
\* would give another frame, but frames holds the value of the last tick.
FrozenAfterStopWitness ==
    /\ ~playing /\ ~raf
    /\ now > startMs
    /\ baseFrames > 0
    /\ frames > baseFrames /\ frames < baseFrames + fps
    /\ frames # loopFrames(now)

\* C17: reset, from Stopped or Playing, leaves the clock Stopped with no
\* callback scheduled and frames at the decoded start timecode; a callback
\* is scheduled again only by play, and only a scheduled callback ticks.
ResetStops ==
    /\ [][reset => /\ playing' = FALSE
                   /\ raf' = FALSE
                   /\ frames' = timecodeToFrames(startTC, fps)]_vars
    /\ [][(~raf /\ raf') => play]_vars
    /\ [][loop => (raf /\ playing)]_vars

\* Reset while playing away from the start frame: Stopped at the start
\* frame, the baseline of the interrupted playback still in the refs.
ResetWhilePlayingWitness ==
    /\ ~playing /\ ~raf
    /\ frames = timecodeToFrames(startTC, fps)
    /\ baseFrames > frames
    /\ now > startMs

\* C18: capture appends one marker at the end, with comment "", the id the
\* counter had, and the current frames (>= 0); the counter goes up by 1, the
\* markers stored before, frames and the run state are unchanged.
CaptureAppends ==
    [][capture =>
         /\ Len(markers') = Len(markers) + 1
         /\ SubSeq(markers', 1, Len(markers)) = markers
         /\ markers'[Len(markers')] =
              [id |-> nextMarkerId, frames |-> frames, comment |-> <<>>]
         /\ frames >= 0
         /\ nextMarkerId' = nextMarkerId + 1
         /\ frames' = frames /\ playing' = playing /\ raf' = raf
      ]_vars

\* A second marker captured while playing, after the first was commented
CapturedWhilePlayingWitness ==
    /\ Len(markers) = 2
    /\ markers[1].comment # <<>>
    /\ markers[2].comment = <<>>
    /\ markers[2].id = nextMarkerId - 1
    /\ playing

\* C19: saveComment replaces the comment of the marker that has the edited
\* id and changes no other marker, no id, no frames, not the order and not
\* the id counter; with no marker of that id in the ledger it leaves the
\* ledger unchanged.
EditCommentOnly ==
    [][saveComment =>
         /\ Len(markers') = Len(markers)
         /\ \A i \in 1..Len(markers) :
              /\ markers'[i].id = markers[i].id
              /\ markers'[i].frames = markers[i].frames
              /\ markers'[i].comment =
                   IF editing # <<>> /\ markers[i].id = editing[1].id
                   THEN comment ELSE markers[i].comment
         /\ nextMarkerId' = nextMarkerId
         /\ (editing = <<>> \/ \A i \in 1..Len(markers) : markers[i].id # editing[1].id)
              => markers' = markers
      ]_vars

\* Of two markers, the second one has been commented and saved.
SecondCommentedWitness ==
    /\ Len(markers) = 2
    /\ markers[1].comment = <<>>
    /\ markers[2].comment # <<>>
    /\ editing = <<>>

\* C20: changeFps leaves the ledger unchanged, and the text copied afterwards
\* has, for each marker, the timecode of its stored frames at the current
\* fps.
FpsChangeKeepsMarkers ==
    /\ [][\A v \in FpsChoices : changeFps(v) => markers' = markers]_vars
    /\ [][(copyMarkersToClipboard /\ Len(markers) > 0) =>
            LET o == sortedMarkers
                lines == split(clipboard'[1], "\n")
            IN  /\ Len(lines) = Len(o)
                /\ \A i \in 1..Len(o) :
                     SubSeq(lines[i], 6, 16) = framesToTimecode(o[i].frames, fps)
         ]_vars

\* A marker at frame 120 copied at 30 fps reads 00:00:04:00.
CopiedAtThirtyWitness ==
    /\ fps = 30
    /\ Len(markers) = 1 /\ markers[1].frames = 120
    /\ clipboard # <<>>
    /\ SubSeq(clipboard[1], 6, 16) =
         <<"0", "0", ":", "0", "0", ":", "0", "4", ":", "0", "0">>

\* C21: while an export waits for its file name or a summary request is in
\* flight, a tick sets frames by the tick formula, play, stop, capture and the
\* scheduled callback are enabled, and the completion of the export or of the
\* request changes neither frames nor the run state.
Pending == namePrompt # <<>> \/ requests # <<>>
ClockNotBlocked ==
    /\ [][(Pending /\ loop) =>
            frames' = baseFrames + ((now - startMs) * fps) \div 1000]_vars
    /\ [](Pending =>
            /\ ENABLED play
            /\ ENABLED stop
            /\ raf => ENABLED loop
            /\ nextMarkerId <= MaxIds => ENABLED capture)
    /\ [][(\/ \E draft \in BusyDrafts : resolveFileName(draft, TRUE)
           \/ \E outcome \in BusyOutcomes : summaryResponse(outcome))
          => UNCHANGED <<clockVars, now>>]_vars

\* C22: in the rows of the PDF export the timecode and the trimmed comment
\* have every & < > " ' replaced, character by character, by &amp; &lt; &gt;
\* &quot; &#039; (so the "&" of an entity is never replaced again); the
\* plain text has the trimmed comment as it is.
Entity(c) ==
    CASE c = "&" -> <<"&", "a", "m", "p", ";">>
      [] c = "<" -> <<"&", "l", "t", ";">>
      [] c = ">" -> <<"&", "g", "t", ";">>
      [] c = "\"" -> <<"&", "q", "u", "o", "t", ";">>
      [] c = "'" -> <<"&", "#", "0", "3", "9", ";">>
      [] OTHER -> <<c>>
RECURSIVE EntityText(_)
EntityText(s) == IF Len(s) = 0 THEN <<>> ELSE Entity(s[1]) \o EntityText(Tail(s))
PdfEscapes ==
    /\ [][(exportMarkersPdf /\ Len(markers) > 0 /\ platform # "web") =>
            LET o == sortedMarkers
                rows == namePrompt'[1].content.rows
            IN  /\ Len(rows) = Len(o)
                /\ \A i \in 1..Len(o) :
                     /\ rows[i].cmt = EntityText(trim(o[i].comment))
                     /\ rows[i].tc = EntityText(framesToTimecode(o[i].frames, fps))
         ]_vars
    /\ [][(copyMarkersToClipboard /\ Len(markers) > 0) =>
            LET o == sortedMarkers
            IN  clipboard' =
                  <<join([i \in 1..Len(o) |-> ExpectedLine(o[i], i, fps)], <<"\n">>)>>
         ]_vars

\* The comment "<&;" has been exported as "&lt;&amp;;" to the PDF and as
\* "<&;" to the clipboard.
EscapedOnceWitness ==
    /\ Len(markers) = 1 /\ markers[1].comment = <<"<", "&", ";">>
    /\ namePrompt # <<>> /\ namePrompt[1].ext = pdf
    /\ namePrompt[1].content.rows[1].cmt =
         <<"&", "l", "t", ";", "&", "a", "m", "p", ";", ";">>
    /\ clipboard =
         <<<<"#", "0", "1", " ", "[", "0", "0", ":", "0", "0", ":", "0", "5", ":",
             "0", "0", "]", " ", "<", "&", ";">>>>

\* C23: play, from Stopped or from Playing, leaves the clock Playing with
\* baseFrames equal to frames at the call and startMs equal to now; the
\* baseline is kept until the next play, so a tick e ms after play sets
\* frames to the frames at the call plus floor(e * fps / 1000).
PlayBaselines ==
    /\ [][play => /\ playing' = TRUE
                  /\ baseFrames' = frames
                  /\ startMs' = now
                  /\ frames' = frames]_vars
    /\ [][(playing /\ playing' /\ ~play) => UNCHANGED <<baseFrames, startMs>>]_vars
    /\ [][loop => frames' = baseFrames + ((now - startMs) * fps) \div 1000]_vars

\* C24: every step leaves the ledger unchanged, appends one marker at its
\* end, replaces the comment of one stored marker, or removes all markers; no
\* step changes the id or the frames of a stored marker or removes some
\* markers and keeps others.
LedgerChangesFourWays ==
    [][\/ markers' = markers
       \/ /\ Len(markers') = Len(markers) + 1
          /\ SubSeq(markers', 1, Len(markers)) = markers
       \/ /\ Len(markers') = Len(markers)
          /\ \E i \in 1..Len(markers) :
               /\ markers'[i].id = markers[i].id
               /\ markers'[i].frames = markers[i].frames
               /\ \A j \in 1..Len(markers) : j # i => markers'[j] = markers[j]
       \/ markers' = <<>>
      ]_vars

\* The ledger was cleared after the first capture; the marker captured
\* since then has been commented.
CommentedAfterClearWitness ==
    /\ Len(markers) = 1
    /\ markers[1].id = 2
    /\ markers[1].comment # <<>>
    /\ editing = <<>>

\* C25: the stored ledger stays in insertion order (the order in which the
\* ids were issued) whatever lists have been produced, no change of the sort
\* mode changes it, and the text built in "created" mode lists the markers
\* in that order.
CreatedKeepsInsertionOrder ==
    /\ [](\A i \in 1..Len(markers) : markers[i].id = issued[i])
    /\ [][\A mode \in {"created", "timecode"} :
            setSortMode(mode) => markers' = markers]_vars
    /\ [][(copyMarkersToClipboard /\ Len(markers) > 0 /\ sortMode = "created") =>
            clipboard' =
              <<join([i \in 1..Len(markers) |-> ExpectedLine(markers[i], i, fps)],
                     <<"\n">>)>>
         ]_vars

\* A ledger captured at frames 120 then 0 was copied in timecode order and
\* then, back in "created" mode, lists frame 120 first.
CreatedAfterTimecodeWitness ==
    /\ sortMode = "created"
    /\ Len(markers) = 2 /\ markers[1].frames = 120 /\ markers[2].frames = 0
    /\ sortedMarkers = markers
    /\ clipboard = <<buildMarkersTextOf(markers, "timecode", fps)>>
    /\ clipboard # <<buildMarkersTextOf(markers, "created", fps)>>

\* C26: adjust(d) while Stopped, for d positive or negative, sets frames to
\* frames + d*fps, or to 0 when that is negative, and leaves the clock
\* Stopped with no callback scheduled, and fps, the baseline and the ledger
\* unchanged.
AdjustWhileStopped ==
    [][\A d \in AdjustChoices :
         (~playing /\ adjust(d)) =>
            /\ frames' = IF frames + d * fps < 0 THEN 0 ELSE frames + d * fps
            /\ playing' = FALSE /\ raf' = raf
            /\ fps' = fps
            /\ UNCHANGED <<startMs, baseFrames, ledgerVars>>
      ]_vars

\* Never played, with the start timecode 00:00:00:00: the position is one
\* second in.
StoppedOneSecondInWitness ==
    /\ ~playing /\ baseFrames = 0 /\ startMs = 0
    /\ timecodeToFrames(startTC, fps) = 0
    /\ frames = fps

\* C27: a step that changes fps starts from a state that is not playing (and
\* leaves it not playing), and while playing no press of the FPS selector is
\* enabled.
FpsFixedWhilePlaying ==
    /\ [][fps' # fps => (~playing /\ ~playing')]_vars
    /\ [](playing => \A v \in FpsChoices : ~ENABLED changeFps(v))

\* Playing at 25 fps, the rate having been changed before play, and ticking.
PlayingAtNewRateWitness ==
    /\ playing /\ raf
    /\ fps = 25
    /\ frames > baseFrames /\ baseFrames > 0

\* C28: at most one animation frame callback is requested at any time,
\* raf.current holds its id exactly when there is one, and there is none
\* while the clock is Stopped.
AtMostOneCallback ==
    /\ queued \in {0, 1}
    /\ raf <=> queued = 1
    /\ ~playing => queued = 0

\* Playing again from a position reached by ticking: play was pressed a
\* second time, and one callback is requested.
PlayedAgainWitness ==
    /\ playing /\ queued = 1
    /\ startMs > 0 /\ startMs = now
    /\ baseFrames = frames
    /\ frames > timecodeToFrames(startTC, fps)
    /\ frames < timecodeToFrames(startTC, fps) + fps

\* C29: a text export takes its content when it is triggered, from the
\* ledger, fps and sort mode of that moment; while the file-name prompt is
\* open no capture, comment edit, reset, change of fps or of the sort mode
\* changes the waiting content, and the file written has that content.
ExportWritesSnapshot ==
    /\ [][(exportMarkers /\ Len(markers) > 0) =>
            namePrompt' = <<[ext |-> txt,
                             defaultName |-> MarkersPrefix \o toString(fps) \o FpsSuffix,
                             content |-> TextContent(
                               join([i \in 1..Len(sortedMarkers) |->
                                       ExpectedLine(sortedMarkers[i], i, fps)],
                                    <<"\n">>))]>>
         ]_vars
    /\ [][(namePrompt # <<>> /\ namePrompt' # <<>>) => namePrompt' = namePrompt]_vars
    /\ [][(namePrompt # <<>> /\ namePrompt' = <<>>) =>
            /\ written' # <<>>
            /\ written'[1].content = namePrompt[1].content
         ]_vars

\* The file written holds the one marker of the export's moment, without a
\* comment, at 24 fps; the ledger now holds that marker commented and a
\* second one, at 30 fps.
SnapshotWrittenWitness ==
    /\ written # <<>> /\ namePrompt = <<>>
    /\ written[1].content.text =
         <<"#", "0", "1", " ", "[", "0", "1", ":", "0", "0", ":", "0", "0", ":",
           "0", "0", "]">>
    /\ Len(markers) = 2 /\ markers[1].comment # <<>>
    /\ fps = 30
    /\ written[1].content.text # buildMarkersText


\* C30: reset leaves the summary empty, and it stays empty until a request
\* started after that reset completes.  A request starts from a ledger that
\* is not empty only, and only reset empties the ledger: while the ledger
\* stays empty after the reset, every response is of a request that was in
\* flight when reset ran, and none of them sets the summary.
SummaryStaysEmptyAfterReset ==
    /\ [][reset => summary' = <<>>]_vars
    /\ [][(markers = <<>> /\ markers' = <<>> /\ summary = <<>>) =>
            summary' = <<>>]_vars


\* C31: right after reset the timecode displayed, framesToTimecode(frames,
\* fps), is the start timecode string, whatever start timecode was
\* confirmed in the picker (FF below the rate of that moment) and whatever
\* changes of fps came between the confirmation and the reset.
ResetShowsStartTC ==
    [][reset => framesToTimecode(frames', fps') = startTC]_vars


\* C32: changeFps from a whole-second position, frames a multiple of the
\* old rate A, to the rate B gives frames = (frames / A) * B: the displayed
\* HH:MM:SS is unchanged and FF is 00; and the conversion back to A gives
\* the frames it started from.
FpsChangeKeepsWholeSeconds ==
    [][\A B \in FpsChoices :
         (changeFps(B) /\ frames % fps = 0) =>
            /\ frames' = (frames \div fps) * B
            /\ SubSeq(framesToTimecode(frames', fps'), 1, 8)
                 = SubSeq(framesToTimecode(frames, fps), 1, 8)
            /\ SubSeq(framesToTimecode(frames', fps'), 9, 11) = <<":", "0", "0">>
            /\ secondsToFrames(framesToSeconds(frames', fps'), fps) = frames
      ]_vars

\* One second before the default start timecode, at 25 fps: the seek button
\* and the FPS selector were both pressed.
WholeSecondAtNewRateWitness ==
    /\ fps = 25 /\ startTC = StartTCDefault /\ ~tcModalOpen
    /\ frames = 3599 * 25
    /\ framesToTimecode(frames, fps) =
         <<"0", "0", ":", "5", "9", ":", "5", "9", ":", "0", "0">>

============================================================================
